---------------------------- MODULE Spec2Model ----------------------------
(***************************************************************************)
(* Khmer transliteration service: the ModelLoader inference engine         *)
(* (backend/utils/model_loader.py) and the TranslationService orchestrator *)
(* (backend/services/translation.py).                                      *)
(*                                                                         *)
(* Strings are sequences of one-character strings.  Probabilities are      *)
(* numerators over ProbDen; a confidence (a percentage with two decimals)  *)
(* is an integer count of hundredths of a percent, so 100.0 is 10000.      *)
(***************************************************************************)
EXTENDS Integers, Sequences, FiniteSets, TLC

(***************************************************************************)
(* Bounds of the model.                                                    *)
(***************************************************************************)
MaxInputLen == 1      \* longest word handed to predict_khmer_with_confidence
MaxTextLen == 3       \* longest text handed to translate_text
MaxT == 2             \* most output positions of an ordinary model artifact
MaxTT == 1            \* the same, for the artifacts translate_text is run on
ProbDen == 3          \* probabilities are 0/ProbDen .. ProbDen/ProbDen
MaxKhmLen == 1        \* the max_khm_len stored in the pickle
MaxEngLen == 1        \* the max_eng_len stored in the pickle
MaxLoads == 2         \* load_model calls that are counted
MaxSeqLen == 3        \* longest sequence handed to _pad_sequences on its own
MaxPadVal == 1        \* largest entry of such a sequence
MaxPadLen == 3        \* largest maxlen handed to _pad_sequences on its own
MaxCleanLen == 4      \* longest text handed to clean_text on its own
MaxOovLen == 3        \* longest word of letters in and out of the source vocabulary

\* range(self.max_khm_len + 10)
LoopSlack == 10

InputAlphabet == {"A", "1", " "}

Inputs == UNION {[1..k -> InputAlphabet] : k \in 0..MaxInputLen}

Texts == UNION {[1..k -> InputAlphabet] : k \in 0..MaxTextLen}

(***************************************************************************)
(* Python string primitives used by the code.                              *)
(***************************************************************************)
\* str.lower, character by character
lower(c) == IF c = "A" THEN "a" ELSE c

\* the \s class of re, and what str.strip / str.split / str.isspace treat as blank
IsSpace(c) == c \in {" ", "\t", "\n"}

\* the a-z class of re
IsAZ(c) == c \in {"a", "k"}

RECURSIVE lstrip(_)
lstrip(s) == IF s # <<>> /\ IsSpace(Head(s)) THEN lstrip(Tail(s)) ELSE s

RECURSIVE rstrip(_)
rstrip(s) ==
    IF s # <<>> /\ IsSpace(s[Len(s)]) THEN rstrip(SubSeq(s, 1, Len(s) - 1)) ELSE s

strip(s) == rstrip(lstrip(s))

\* isspace with a seeded fault: the fallback test reduced to "if not result"
isspaceNever(s) == FALSE

\* str.isspace: non-empty and every character blank
isspace(s) == s # <<>> /\ \A i \in 1..Len(s) : IsSpace(s[i])

RECURSIVE SplitAcc(_, _, _)
SplitAcc(s, cur, acc) ==
    IF s = <<>> THEN (IF cur = <<>> THEN acc ELSE Append(acc, cur))
    ELSE IF IsSpace(Head(s))
         THEN SplitAcc(Tail(s), <<>>, IF cur = <<>> THEN acc ELSE Append(acc, cur))
         ELSE SplitAcc(Tail(s), Append(cur, Head(s)), acc)

\* str.split() with no argument: the maximal runs of non-blank characters
split(s) == SplitAcc(s, <<>>, <<>>)

RECURSIVE join(_)
join(parts) == IF parts = <<>> THEN <<>> ELSE Head(parts) \o join(Tail(parts))

\* f"[{eng_input}]"
Bracket(s) == <<"[">> \o s \o <<"]">>

RECURSIVE SumSeq(_)
SumSeq(s) == IF s = <<>> THEN 0 ELSE Head(s) + SumSeq(Tail(s))

\* round(x, 2) of the exact quotient num/den, in hundredths: nearest, ties to even
RoundHalfEven(num, den) ==
    LET q == num \div den
        r == num % den
    IN  IF 2 * r < den THEN q
        ELSE IF 2 * r > den THEN q + 1
        ELSE IF q % 2 = 0 THEN q ELSE q + 1

(***************************************************************************)
(* ModelLoader.clean_text                                                  *)
(***************************************************************************)
\* clean_text with a seeded fault: the characters are deleted before the strip
clean_textFilterFirst(text, is_khmer) ==
    LET t == [i \in 1..Len(text) |-> lower(text[i])]
    IN  IF ~is_khmer
        THEN strip(SelectSeq(t, LAMBDA c : IsAZ(c) \/ IsSpace(c)))
        ELSE strip(t)

clean_text(text, is_khmer) ==
    LET t == strip([i \in 1..Len(text) |-> lower(text[i])])
    IN  IF ~is_khmer
        THEN SelectSeq(t, LAMBDA c : IsAZ(c) \/ IsSpace(c))
        ELSE t

(***************************************************************************)
(* DataPreprocessor.clean_input.  A character of the Khmer block           *)
(* U+1780..U+17FF is written by its code point.                            *)
(***************************************************************************)
IsKhmer(c) == c \in {"U1780"}

clean_input(text, is_khmer) ==
    LET t == strip([i \in 1..Len(text) |-> lower(text[i])])
    IN  IF ~is_khmer
        THEN SelectSeq(t, LAMBDA c : IsAZ(c) \/ IsSpace(c))
        ELSE SelectSeq(t, LAMBDA c : IsKhmer(c) \/ IsSpace(c))

(***************************************************************************)
(* ModelLoader._pad_sequences.  np.zeros raises for a negative maxlen, and *)
(* a slice assignment raises when the lengths differ; err records that.    *)
(***************************************************************************)
\* PadRow with a seeded fault: a sequence that is too long is cut to seq[:maxlen]
\* whatever the padding
PadRowKeepFirst(seq, maxlen, padding) ==
    LET n == Len(seq)
        zeros(k) == [i \in 1..k |-> 0]
    IN  IF n > maxlen
        THEN [err |-> FALSE, row |-> SubSeq(seq, 1, maxlen)]
        ELSE IF padding = "post"
             THEN [err |-> FALSE, row |-> seq \o zeros(maxlen - n)]
             ELSE IF n = 0 /\ maxlen > 0
                  THEN [err |-> TRUE, row |-> <<>>]
                  ELSE [err |-> FALSE, row |-> zeros(maxlen - n) \o seq]

PadRow(seq, maxlen, padding) ==
    LET n == Len(seq)
        zeros(k) == [i \in 1..k |-> 0]
    IN  IF n > maxlen
        THEN IF padding = "post"
             THEN [err |-> FALSE, row |-> SubSeq(seq, 1, maxlen)]
             ELSE IF maxlen = 0
                  THEN [err |-> TRUE, row |-> <<>>]     \* seq[-0:] is all of seq
                  ELSE [err |-> FALSE, row |-> SubSeq(seq, n - maxlen + 1, n)]
        ELSE IF padding = "post"
             THEN [err |-> FALSE, row |-> seq \o zeros(maxlen - n)]
             ELSE IF n = 0 /\ maxlen > 0
                  THEN [err |-> TRUE, row |-> <<>>]     \* padded[i, -0:] is the whole row
                  ELSE [err |-> FALSE, row |-> zeros(maxlen - n) \o seq]

_pad_sequences(sequences, maxlen, padding) ==
    IF maxlen < 0
    THEN [err |-> TRUE, rows |-> <<>>]
    ELSE LET rs == [i \in 1..Len(sequences) |-> PadRow(sequences[i], maxlen, padding)]
         IN  [err  |-> \E i \in 1..Len(rs) : rs[i].err,
              rows |-> [i \in 1..Len(rs) |-> rs[i].row]]

(***************************************************************************)
(* The artifacts on disk: settings.MODEL_PATH and settings.PICKLE_PATH.    *)
(* A model artifact is opaque: T is the number of output positions of its  *)
(* forward pass (preds.shape[1]) and dists the distributions it can put at *)
(* a position.  An ordinary artifact can put any probability on any one    *)
(* token index and none on the others, or the same probability on all of   *)
(* them (a tie of all indices); the stuck artifact has more positions than *)
(* the loop has iterations and always puts all mass on the visible         *)
(* character.                                                              *)
(***************************************************************************)
\* the token indices of the model's output layer: 0 (padding) and the vocabulary
TokenIdx == 0..3

Probs == 0..ProbDen

AllDists ==
    {[i \in TokenIdx |-> IF i = k THEN p ELSE 0] : k \in TokenIdx, p \in Probs}
    \cup {[i \in TokenIdx |-> p] : p \in Probs}

StuckDist == [i \in TokenIdx |-> IF i = 3 THEN ProbDen ELSE 0]

StuckArtifact ==
    [state |-> "ok", T |-> MaxKhmLen + LoopSlack + 1, dists |-> {StuckDist}]

ModelArtifacts(maxT) ==
    {[state |-> "ok", T |-> n, dists |-> AllDists] : n \in 0..maxT}
    \cup {StuckArtifact}

\* a Keras Tokenizer: word_index and its inverse index_word
Tokenizer(wi) ==
    [word_index |-> wi,
     index_word |-> [i \in {wi[w] : w \in DOMAIN wi} |->
                        CHOOSE w \in DOMAIN wi : wi[w] = i]]

\* target vocabularies: the start marker "\t", the end marker "\n", one letter
StartMarker == <<"\t">>
EndMarker == <<"\n">>

KhmWordIndexFull == (StartMarker :> 1) @@ (EndMarker :> 2) @@ (<<"k">> :> 3)

KhmWordIndexes ==
    {[w \in D |-> KhmWordIndexFull[w]] :
        D \in {S \cup {<<"k">>} : S \in SUBSET {StartMarker, EndMarker}}}

\* source vocabulary: the letter a
EngWordIndex == (<<"a">> :> 2)

PickleAssets ==
    [state         : {"ok"},
     eng_tokenizer : {Tokenizer(EngWordIndex)},
     khm_tokenizer : {Tokenizer(wi) : wi \in KhmWordIndexes},
     max_eng_len   : {-1, MaxEngLen},
     max_khm_len   : {MaxKhmLen}]

\* a file is missing, unreadable (its load raises), or holds an artifact
Missing == [state |-> "missing"]
Corrupt == [state |-> "corrupt"]

Disks(maxT) ==
    [model  : {Missing, Corrupt} \cup ModelArtifacts(maxT),
     pickle : {Missing, Corrupt} \cup PickleAssets]

\* an attribute that was never assigned
Unset == [state |-> "unset"]

\* dict.get's None
None == -1

NoRet == [state |-> "none"]

VARIABLES
    disk,            \* the files at settings.MODEL_PATH / settings.PICKLE_PATH
    _initialized,    \* ModelLoader._initialized
    model,           \* ModelLoader.model
    assets,          \* eng_tokenizer, khm_tokenizer, max_eng_len, max_khm_len
    pc,              \* position of the running predict call
    eng_input,       \* its argument
    enc_padded,      \* locals of predict_khmer_with_confidence
    start_idx,
    end_idx,
    decoder_seq,
    confidences,
    t,
    passes,          \* number of self.model.predict calls of this call
    caught,          \* what the except clause of this call caught, if anything
    result,          \* the joined decoded_chars, before the fallback
    outcome,         \* "returned" or "raised"
    ret,             \* the returned (string, confidence) pair
    tpc,             \* position of the running translate_text call
    text,            \* its argument
    words,           \* locals of translate_text
    results,
    total_confidence,
    tret,            \* the returned dict
    loads,           \* number of load_model calls that returned, so far
    ipc,             \* per thread: position in a concurrent initialize() call
    ikind,           \* per thread: how initialize() was reached
    iout,            \* per thread: how its last initialize() call ended
    pad_in,          \* arguments of a _pad_sequences call made on its own
    pad_out,         \* what that call gave
    clean_in,        \* arguments of a text cleaning call made on its own
    clean_out,       \* what clean_text and clean_input gave for them
    apc,             \* position of the request handler that is running
    areq,            \* the request it serves
    aresp,           \* the HTTP response it gave
    aeffects         \* what the handler called on the way, in order

engine == <<_initialized, model, assets>>
frame == <<pc, eng_input, enc_padded, start_idx, end_idx, decoder_seq,
           confidences, t, passes, caught, result, outcome, ret>>
tframe == <<tpc, text, words, results, total_confidence, tret>>
threads == <<ipc, ikind, iout>>
pad == <<pad_in, pad_out>>
clean == <<clean_in, clean_out>>
api == <<apc, areq, aresp, aeffects>>
vars == <<disk, engine, frame, tframe, loads, threads, pad, clean, api>>

(***************************************************************************)
(* ModelLoader.initialize, as a function of the engine and the disk: what  *)
(* the engine holds afterwards and whether the call raised.                *)
(***************************************************************************)
initialize(init, mdl, ast, dsk) ==
    IF init
    THEN [raised |-> FALSE, _initialized |-> init, model |-> mdl, assets |-> ast,
          loaded |-> FALSE]
    ELSE IF dsk.model = Missing \/ dsk.pickle = Missing
    THEN [raised |-> TRUE, _initialized |-> FALSE, model |-> mdl, assets |-> ast,
          loaded |-> FALSE]
    ELSE IF dsk.model = Corrupt
    THEN [raised |-> TRUE, _initialized |-> FALSE, model |-> mdl, assets |-> ast,
          loaded |-> FALSE]
    ELSE IF dsk.pickle = Corrupt
    THEN [raised |-> TRUE, _initialized |-> FALSE, model |-> dsk.model,
          assets |-> ast, loaded |-> TRUE]
    ELSE [raised |-> FALSE, _initialized |-> TRUE, model |-> dsk.model,
          assets |-> dsk.pickle, loaded |-> TRUE]

\* the count of load_model calls after a call of initialize
Counted(n, i) == IF i.loaded THEN n + 1 ELSE n

(***************************************************************************)
(* The encode phase of predict_khmer_with_confidence.                      *)
(***************************************************************************)
\* Tokenizer.texts_to_sequences: per text, the indices of its known words
texts_to_sequences(tokenizer, texts) ==
    [i \in 1..Len(texts) |->
        LET ws == split(texts[i])
            known == SelectSeq(ws, LAMBDA w : w \in DOMAIN tokenizer.word_index)
        IN  [j \in 1..Len(known) |-> tokenizer.word_index[known[j]]]]

\* CharEncode with a seeded fault: a character without an index is skipped
CharEncodeSkip(tokenizer, cleaned) ==
    LET known == SelectSeq(cleaned, LAMBDA c : <<c>> \in DOMAIN tokenizer.word_index)
    IN  [i \in 1..Len(known) |-> tokenizer.word_index[<<known[i]>>]]

\* the character-by-character fallback
CharEncode(tokenizer, cleaned) ==
    [i \in 1..Len(cleaned) |->
        IF <<cleaned[i]>> \in DOMAIN tokenizer.word_index
        THEN tokenizer.word_index[<<cleaned[i]>>]
        ELSE IF cleaned[i] = " " THEN 1 ELSE 0]

Encode(ast, cleaned) ==
    LET enc0 == texts_to_sequences(ast.eng_tokenizer, <<cleaned>>)
        enc_seq == IF enc0 = <<>> \/ Len(enc0[1]) = 0
                   THEN <<CharEncode(ast.eng_tokenizer, cleaned)>>
                   ELSE enc0
    IN  _pad_sequences(enc_seq, ast.max_eng_len, "post")

\* dict.get(key): the value, or None
Get(d, key) == IF key \in DOMAIN d THEN d[key] ELSE None

(***************************************************************************)
(* The decode phase.                                                       *)
(***************************************************************************)
\* ArgMax with a seeded fault: the last index of the maximum
ArgMaxLast(probs) ==
    CHOOSE i \in DOMAIN probs :
        /\ \A j \in DOMAIN probs : probs[j] <= probs[i]
        /\ \A j \in DOMAIN probs : j > i => probs[j] < probs[i]

\* np.argmax: the first index of the maximum
ArgMax(probs) ==
    CHOOSE i \in DOMAIN probs :
        /\ \A j \in DOMAIN probs : probs[j] <= probs[i]
        /\ \A j \in DOMAIN probs : j < i => probs[j] < probs[i]

\* DecodedChars with a seeded fault: the end token is mapped like any other, not stopped at
RECURSIVE DecodedCharsKeepEnd(_, _, _)
DecodedCharsKeepEnd(seq, eidx, index_word) ==
    IF seq = <<>> THEN <<>>
    ELSE <<IF Head(seq) \in DOMAIN index_word THEN index_word[Head(seq)] ELSE <<>>>>
         \o DecodedCharsKeepEnd(Tail(seq), eidx, index_word)

\* the loop over decoder_seq[1:]: stop at end_idx, map the rest through index_word
RECURSIVE DecodedChars(_, _, _)
DecodedChars(seq, eidx, index_word) ==
    IF seq = <<>> THEN <<>>
    ELSE IF Head(seq) = eidx THEN <<>>
    ELSE <<IF Head(seq) \in DOMAIN index_word THEN index_word[Head(seq)] ELSE <<>>>>
         \o DecodedChars(Tail(seq), eidx, index_word)

\* AvgConf with a seeded fault: the step that emitted the last token is left out of the mean
AvgConfDropLast(confs) ==
    IF Len(confs) > 1
    THEN [num |-> SumSeq(SubSeq(confs, 1, Len(confs) - 1)) * 100,
          den |-> (Len(confs) - 1) * ProbDen]
    ELSE [num |-> 0, den |-> 1]

\* np.mean(confidences) * 100 if confidences else 0, as the exact quotient num/den
AvgConf(confs) ==
    IF confs # <<>>
    THEN [num |-> SumSeq(confs) * 100, den |-> Len(confs) * ProbDen]
    ELSE [num |-> 0, den |-> 1]

\* round(avg_conf, 2), in hundredths
round2(q) == RoundHalfEven(q.num * 100, q.den)

\* the lines after the loop: the pair that is returned and the joined string
PostLoop(input, dseq, confs, eidx, index_word) ==
    LET joined == join(DecodedChars(Tail(dseq), eidx, index_word))
        fallback == joined = <<>> \/ isspace(joined)
    IN  [result |-> joined,
         ret |-> [translation |-> IF fallback THEN Bracket(input) ELSE joined,
                  confidence  |-> IF fallback THEN 0 ELSE round2(AvgConf(confs))]]

(***************************************************************************)
(* predict_khmer_with_confidence as steps over its frame: the entry up to  *)
(* the loop, one loop iteration, the lines after the loop.                 *)
(***************************************************************************)
IdleFrame ==
    [pc |-> "idle", eng_input |-> <<>>, enc_padded |-> <<>>, start_idx |-> None,
     end_idx |-> None, decoder_seq |-> <<>>, confidences |-> <<>>, t |-> 0,
     passes |-> 0, caught |-> "none", result |-> <<>>, outcome |-> "none",
     ret |-> NoRet]

CurFrame ==
    [pc |-> pc, eng_input |-> eng_input, enc_padded |-> enc_padded,
     start_idx |-> start_idx, end_idx |-> end_idx, decoder_seq |-> decoder_seq,
     confidences |-> confidences, t |-> t, passes |-> passes, caught |-> caught,
     result |-> result, outcome |-> outcome, ret |-> ret]

SetFrame(f) ==
    /\ pc' = f.pc
    /\ eng_input' = f.eng_input
    /\ enc_padded' = f.enc_padded
    /\ start_idx' = f.start_idx
    /\ end_idx' = f.end_idx
    /\ decoder_seq' = f.decoder_seq
    /\ confidences' = f.confidences
    /\ t' = f.t
    /\ passes' = f.passes
    /\ caught' = f.caught
    /\ result' = f.result
    /\ outcome' = f.outcome
    /\ ret' = f.ret

\* return r
Returned(f, r) == [f EXCEPT !.pc = "done", !.outcome = "returned", !.ret = r]

\* an exception leaves the function
Raised(f) == [f EXCEPT !.pc = "done", !.outcome = "raised"]

\* return "", 0.0
EmptyResult == [translation |-> <<>>, confidence |-> 0]

\* Fallback with a seeded fault: the echo is built from the normalized input
FallbackCleaned(input) ==
    [translation |-> Bracket(clean_text(input, FALSE)), confidence |-> 0]

\* return f"[{eng_input}]", 0.0
Fallback(input) == [translation |-> Bracket(input), confidence |-> 0]

\* Except with a seeded fault: the exception is logged and raised again
ExceptReraise(f, what) == Raised([f EXCEPT !.caught = what])

\* except Exception: return f"[{eng_input}]", 0.0
Except(f, what) == Returned([f EXCEPT !.caught = what], Fallback(f.eng_input))

\* IsEmpty with a seeded fault: the test is "cleaned is None", which a string never is
IsEmptyNever(cleaned) == FALSE

\* len(cleaned) == 0
IsEmpty(cleaned) == Len(cleaned) = 0

\* TokensMissing with a seeded fault: "and" in place of "or"
TokensMissingBoth(sidx, eidx) == sidx = None /\ eidx = None

\* start_idx is None or end_idx is None
TokensMissing(sidx, eidx) == sidx = None \/ eidx = None

\* range(self.max_khm_len + 10)
LoopBound(max_khm_len) == max_khm_len + LoopSlack

\* t == self.max_khm_len + 9
LastOffset == 9

\* from clean_text to the start of the loop, the engine being initialized
PredictStart(w, ast) ==
    LET f0 == [IdleFrame EXCEPT !.eng_input = w]
        cleaned == clean_text(w, FALSE)
        enc == Encode(ast, cleaned)
        sidx == Get(ast.khm_tokenizer.word_index, StartMarker)
        eidx == Get(ast.khm_tokenizer.word_index, EndMarker)
        f1 == [f0 EXCEPT !.enc_padded = enc.rows, !.start_idx = sidx,
                         !.end_idx = eidx]
    IN  IF IsEmpty(cleaned) THEN Returned(f0, EmptyResult)
        ELSE IF enc.err THEN Except(f0, "encode")
        ELSE IF TokensMissing(sidx, eidx) THEN Returned(f1, Fallback(w))
        ELSE [f1 EXCEPT !.decoder_seq = <<sidx>>,
                        !.pc = IF 0 < LoopBound(ast.max_khm_len)
                               THEN "loop" ELSE "post"]

\* LoopStep with a seeded fault: a "while True" loop that only the end token or the end
\* of the model's output stops
LoopStepUnbounded(f, ast, mdl, fwd, dist) ==
    LET dec == _pad_sequences(<<f.decoder_seq>>, ast.max_khm_len + 1, "post")
        time_index == Len(f.decoder_seq) - 1
        next_token == ArgMax(dist)
        confidence == dist[next_token]
        g == [f EXCEPT !.passes = @ + 1]
        h == [g EXCEPT !.confidences = Append(@, confidence),
                       !.decoder_seq = Append(@, next_token)]
    IN  IF dec.err
        THEN Except(f, "pad")
        ELSE IF fwd = "raise"
        THEN Except(g, "forward")
        ELSE IF fwd = "noshape"
        THEN Except(g, "shape")
        ELSE IF time_index >= mdl.T
        THEN [g EXCEPT !.pc = "post"]
        ELSE IF next_token = f.end_idx
        THEN [h EXCEPT !.pc = "post"]
        ELSE [h EXCEPT !.t = @ + 1]

\* LoopStep with a seeded fault: no test of time_index against preds.shape[1], the read
\* past the last position raises IndexError
LoopStepNoShapeTest(f, ast, mdl, fwd, dist) ==
    LET dec == _pad_sequences(<<f.decoder_seq>>, ast.max_khm_len + 1, "post")
        time_index == Len(f.decoder_seq) - 1
        next_token == ArgMax(dist)
        confidence == dist[next_token]
        g == [f EXCEPT !.passes = @ + 1]
        h == [g EXCEPT !.confidences = Append(@, confidence),
                       !.decoder_seq = Append(@, next_token)]
    IN  IF dec.err
        THEN Except(f, "pad")
        ELSE IF fwd = "raise"
        THEN Except(g, "forward")
        ELSE IF fwd = "noshape"
        THEN Except(g, "shape")
        ELSE IF time_index >= mdl.T
        THEN Except(g, "index")
        ELSE IF next_token = f.end_idx \/ f.t = ast.max_khm_len + LastOffset
        THEN [h EXCEPT !.pc = "post"]
        ELSE [h EXCEPT !.t = @ + 1,
                       !.pc = IF f.t + 1 < LoopBound(ast.max_khm_len)
                              THEN "loop" ELSE "post"]

\* LoopStep with a seeded fault: the end token does not stop the loop, only the last
\* iteration and the end of the model's output do
LoopStepPastEnd(f, ast, mdl, fwd, dist) ==
    LET dec == _pad_sequences(<<f.decoder_seq>>, ast.max_khm_len + 1, "post")
        time_index == Len(f.decoder_seq) - 1
        next_token == ArgMax(dist)
        confidence == dist[next_token]
        g == [f EXCEPT !.passes = @ + 1]
        h == [g EXCEPT !.confidences = Append(@, confidence),
                       !.decoder_seq = Append(@, next_token)]
    IN  IF dec.err
        THEN Except(f, "pad")
        ELSE IF fwd = "raise"
        THEN Except(g, "forward")
        ELSE IF fwd = "noshape"
        THEN Except(g, "shape")
        ELSE IF time_index >= mdl.T
        THEN [g EXCEPT !.pc = "post"]
        ELSE IF f.t = ast.max_khm_len + LastOffset
        THEN [h EXCEPT !.pc = "post"]
        ELSE [h EXCEPT !.t = @ + 1,
                       !.pc = IF f.t + 1 < LoopBound(ast.max_khm_len)
                              THEN "loop" ELSE "post"]

\* one iteration; fwd is what self.model.predict does, dist the distribution
\* it puts at position time_index
LoopStep(f, ast, mdl, fwd, dist) ==
    LET dec == _pad_sequences(<<f.decoder_seq>>, ast.max_khm_len + 1, "post")
        time_index == Len(f.decoder_seq) - 1
        next_token == ArgMax(dist)
        confidence == dist[next_token]
        g == [f EXCEPT !.passes = @ + 1]
        h == [g EXCEPT !.confidences = Append(@, confidence),
                       !.decoder_seq = Append(@, next_token)]
    IN  IF dec.err
        THEN Except(f, "pad")
        ELSE IF fwd = "raise"
        THEN Except(g, "forward")
        ELSE IF fwd = "noshape"
        THEN Except(g, "shape")
        ELSE IF time_index >= mdl.T
        THEN [g EXCEPT !.pc = "post"]
        ELSE IF next_token = f.end_idx \/ f.t = ast.max_khm_len + LastOffset
        THEN [h EXCEPT !.pc = "post"]
        ELSE [h EXCEPT !.t = @ + 1,
                       !.pc = IF f.t + 1 < LoopBound(ast.max_khm_len)
                              THEN "loop" ELSE "post"]

(***************************************************************************)
(* Actions.                                                                *)
(***************************************************************************)
(***************************************************************************)
(* TranslationService.translate_text                                       *)
(***************************************************************************)
\* translate_single_word with a seeded fault: the except clause returns "", 0.0
translate_single_wordEmpty(word, out, r) ==
    IF out = "raised" THEN EmptyResult ELSE r

\* translate_single_word: the engine's pair, or the fallback when it raised
translate_single_word(word, out, r) ==
    IF out = "raised" THEN Fallback(word) ELSE r

\* EmptyTranslation with a seeded fault: word_count is taken from the text, not the words
EmptyTranslationCounted(txt) ==
    [input_text |-> txt, translation |-> <<>>, word_translations |-> <<>>,
     average_confidence |-> 0, word_count |-> Len(txt)]

\* the dict returned for a text without words
EmptyTranslation(txt) ==
    [input_text |-> txt, translation |-> <<>>, word_translations |-> <<>>,
     average_confidence |-> 0, word_count |-> 0]

\* AverageConfidence with a seeded fault: the division by len(results) is forgotten
AverageConfidenceTotal(total, rs) == total

\* AverageConfidence with a seeded fault: words with confidence 0.0 are left out of the mean
AverageConfidenceSkipZero(total, rs) ==
    LET nz == Len(SelectSeq(rs, LAMBDA r : r.confidence # 0))
    IN  IF nz > 0 THEN RoundHalfEven(total, nz) ELSE 0

\* total_confidence / len(results) if results else 0, rounded, in hundredths
AverageConfidence(total, rs) ==
    IF rs # <<>> THEN RoundHalfEven(total, Len(rs)) ELSE 0

\* FullTranslation with a seeded fault: the translations are joined with ' '.join
FullTranslationSpaced(txt, ws, rs, total) ==
    [input_text |-> txt,
     translation |-> join([i \in 1..(2 * Len(rs) - 1) |->
                              IF i % 2 = 1 THEN rs[(i + 1) \div 2].translation
                              ELSE <<" ">>]),
     word_translations |-> rs,
     average_confidence |-> AverageConfidence(total, rs),
     word_count |-> Len(ws)]

\* the dict returned after the loop over the words
FullTranslation(txt, ws, rs, total) ==
    [input_text |-> txt,
     translation |-> join([i \in 1..Len(rs) |-> rs[i].translation]),
     word_translations |-> rs,
     average_confidence |-> AverageConfidence(total, rs),
     word_count |-> Len(ws)]

(***************************************************************************)
(* Actions.                                                                *)
(***************************************************************************)
EngineInit ==
    /\ _initialized = FALSE
    /\ model = Unset
    /\ assets = Unset
    /\ pc = "idle"
    /\ eng_input = <<>>
    /\ enc_padded = <<>>
    /\ start_idx = None
    /\ end_idx = None
    /\ decoder_seq = <<>>
    /\ confidences = <<>>
    /\ t = 0
    /\ passes = 0
    /\ caught = "none"
    /\ result = <<>>
    /\ outcome = "none"
    /\ ret = NoRet
    /\ tpc = "idle"
    /\ text = <<>>
    /\ words = <<>>
    /\ results = <<>>
    /\ total_confidence = 0
    /\ tret = NoRet
    /\ loads = 0

\* the threads of the process: the one that serves requests and a second one
Threads == {"t1", "t2"}

\* no thread is inside initialize()
ThreadsInit ==
    /\ ipc = [th \in Threads |-> "idle"]
    /\ ikind = [th \in Threads |-> "none"]
    /\ iout = [th \in Threads |-> "none"]

\* no call of _pad_sequences on its own
PadIdle == pad_in = Unset /\ pad_out = NoRet

\* no call of clean_text on its own
CleanIdle == clean_in = Unset /\ clean_out = NoRet

\* no request is being served
ApiIdle == apc = "idle" /\ areq = NoRet /\ aresp = NoRet /\ aeffects = <<>>

Idle == ThreadsInit /\ PadIdle /\ CleanIdle /\ ApiIdle

Init == disk \in Disks(MaxT) /\ EngineInit /\ Idle

InitT == disk \in Disks(MaxTT) /\ EngineInit /\ Idle

\* model_loader.initialize() called on its own (startup, health check, tests)
Initialize ==
    /\ pc = "idle"
    /\ LET i == initialize(_initialized, model, assets, disk)
       IN  /\ i.loaded => loads < MaxLoads
           /\ _initialized' = i._initialized
           /\ model' = i.model
           /\ assets' = i.assets
           /\ loads' = Counted(loads, i)
    /\ UNCHANGED <<disk, frame, tframe, threads, pad, clean, api>>

\* predict_khmer_with_confidence(w), up to the loop
PredictCall(w) ==
    /\ pc = "idle"
    /\ LET i == IF ~_initialized
                THEN initialize(_initialized, model, assets, disk)
                ELSE [raised |-> FALSE, _initialized |-> _initialized,
                      model |-> model, assets |-> assets, loaded |-> FALSE]
       IN  /\ i.loaded => loads < MaxLoads
           /\ _initialized' = i._initialized
           /\ model' = i.model
           /\ assets' = i.assets
           /\ loads' = Counted(loads, i)
           /\ SetFrame(IF i.raised
                       THEN Raised([IdleFrame EXCEPT !.eng_input = w])
                       ELSE PredictStart(w, i.assets))
    /\ UNCHANGED <<disk, threads, pad, clean, api>>

\* model_loader.predict(w) called on its own
Predict(w) ==
    /\ tpc = "idle"
    /\ PredictCall(w)
    /\ UNCHANGED tframe

\* one iteration of the greedy decoding loop
Iterate ==
    /\ pc = "loop"
    /\ \/ \E dist \in model.dists :
              SetFrame(LoopStep(CurFrame, assets, model, "ok", dist))
       \/ \E fwd \in {"raise", "noshape"} :
              SetFrame(LoopStep(CurFrame, assets, model, fwd, StuckDist))
    /\ UNCHANGED <<disk, engine, tframe, loads, threads, pad, clean, api>>

\* the lines after the loop, to the return
Finish ==
    /\ pc = "post"
    /\ LET p == PostLoop(eng_input, decoder_seq, confidences, end_idx,
                         assets.khm_tokenizer.index_word)
       IN  SetFrame(Returned([CurFrame EXCEPT !.result = p.result], p.ret))
    /\ UNCHANGED <<disk, engine, tframe, loads, threads, pad, clean, api>>

\* the caller of predict takes the result; the frame is gone
Return ==
    /\ tpc = "idle"
    /\ pc = "done"
    /\ SetFrame(IdleFrame)
    /\ UNCHANGED <<disk, engine, tframe, loads, threads, pad, clean, api>>

\* translate_text(txt), up to the loop over the words
TranslateCall(txt) ==
    /\ tpc = "idle"
    /\ pc = "idle"
    /\ text' = txt
    /\ words' = split(txt)
    /\ results' = <<>>
    /\ total_confidence' = 0
    /\ IF split(txt) = <<>>
       THEN tpc' = "done" /\ tret' = EmptyTranslation(txt)
       ELSE tpc' = "words" /\ tret' = NoRet
    /\ UNCHANGED <<disk, engine, frame, loads, threads, pad, clean>>

\* translation_service.translate_text(txt) called on its own
Translate(txt) ==
    /\ TranslateCall(txt)
    /\ UNCHANGED api

\* translate_single_word(word) calls the engine for the next word
TranslateWord ==
    /\ tpc = "words"
    /\ PredictCall(words[Len(results) + 1])
    /\ UNCHANGED tframe

\* the engine has answered: the rest of the loop body and, after the last
\* word, the lines after the loop
WordDone ==
    /\ tpc = "words"
    /\ pc = "done"
    /\ LET word == words[Len(results) + 1]
           pair == translate_single_word(word, outcome, ret)
           rs == Append(results, [input |-> word,
                                  translation |-> pair.translation,
                                  confidence |-> pair.confidence])
           total == total_confidence + pair.confidence
       IN  /\ results' = rs
           /\ total_confidence' = total
           /\ IF Len(rs) = Len(words)
              THEN tpc' = "done" /\ tret' = FullTranslation(text, words, rs, total)
              ELSE tpc' = "words" /\ tret' = NoRet
    /\ SetFrame(IdleFrame)
    /\ UNCHANGED <<disk, engine, text, words, loads, threads, pad, clean, api>>

\* the caller of translate_text takes the dict
TranslateReturn ==
    /\ tpc = "done"
    /\ tpc' = "idle"
    /\ text' = <<>>
    /\ words' = <<>>
    /\ results' = <<>>
    /\ total_confidence' = 0
    /\ tret' = NoRet
    /\ UNCHANGED <<disk, engine, frame, loads, threads, pad, clean, api>>

(***************************************************************************)
(* ModelLoader.initialize called from several threads.  The method takes   *)
(* no lock, so a call is a sequence of steps that other threads' steps     *)
(* can come between: the test of _initialized, the two exists() tests,     *)
(* load_model, the pickle load with the four assignments, and the          *)
(* assignment of _initialized.                                             *)
(***************************************************************************)
\* thread th is at position p, having got there by kind k, with outcome o
Goto(th, p, k, o) ==
    /\ ipc' = [ipc EXCEPT ![th] = p]
    /\ ikind' = [ikind EXCEPT ![th] = k]
    /\ iout' = [iout EXCEPT ![th] = o]

\* model_loader.initialize() is called (startup_event, the tests)
CallInitialize(th) ==
    /\ ipc[th] = "idle"
    /\ Goto(th, "check", "initialize", "none")
    /\ UNCHANGED <<disk, engine, frame, tframe, loads, pad, clean, api>>

\* if not self._initialized: self.initialize(), the opening of
\* predict_khmer_with_confidence
CallLazy(th) ==
    /\ ipc[th] = "idle"
    /\ IF ~_initialized
       THEN Goto(th, "check", "lazy", "none")
       ELSE Goto(th, "idle", "lazy", "skipped")
    /\ UNCHANGED <<disk, engine, frame, tframe, loads, pad, clean, api>>

\* InitCheck with a seeded fault: the test of _initialized is missing
InitCheckAlways(th) ==
    /\ ipc[th] = "check"
    /\ Goto(th, "files", ikind[th], "none")
    /\ UNCHANGED <<disk, engine, frame, tframe, loads, pad, clean, api>>

\* if self._initialized: return
InitCheck(th) ==
    /\ ipc[th] = "check"
    /\ IF _initialized
       THEN Goto(th, "idle", ikind[th], "returned")
       ELSE Goto(th, "files", ikind[th], "none")
    /\ UNCHANGED <<disk, engine, frame, tframe, loads, pad, clean, api>>

\* the two exists() tests
InitFiles(th) ==
    /\ ipc[th] = "files"
    /\ IF disk.model = Missing \/ disk.pickle = Missing
       THEN Goto(th, "idle", ikind[th], "raised")
       ELSE Goto(th, "model", ikind[th], "none")
    /\ UNCHANGED <<disk, engine, frame, tframe, loads, pad, clean, api>>

\* self.model = load_model(...)
InitLoadModel(th) ==
    /\ ipc[th] = "model"
    /\ IF disk.model = Corrupt
       THEN /\ Goto(th, "idle", ikind[th], "raised")
            /\ UNCHANGED <<model, loads>>
       ELSE /\ loads < MaxLoads
            /\ model' = disk.model
            /\ loads' = loads + 1
            /\ Goto(th, "pickle", ikind[th], "none")
    /\ UNCHANGED <<disk, _initialized, assets, frame, tframe, pad, clean, api>>

\* InitLoadPickle with a seeded fault: the except clause logs the error and goes on
InitLoadPickleSwallow(th) ==
    /\ ipc[th] = "pickle"
    /\ IF disk.pickle = Corrupt
       THEN /\ Goto(th, "flag", ikind[th], "none")
            /\ UNCHANGED assets
       ELSE /\ assets' = disk.pickle
            /\ Goto(th, "flag", ikind[th], "none")
    /\ UNCHANGED <<disk, _initialized, model, frame, tframe, loads, pad, clean, api>>

\* assets = pickle.load(f) and the four assignments
InitLoadPickle(th) ==
    /\ ipc[th] = "pickle"
    /\ IF disk.pickle = Corrupt
       THEN /\ Goto(th, "idle", ikind[th], "raised")
            /\ UNCHANGED assets
       ELSE /\ assets' = disk.pickle
            /\ Goto(th, "flag", ikind[th], "none")
    /\ UNCHANGED <<disk, _initialized, model, frame, tframe, loads, pad, clean, api>>

\* self._initialized = True
InitSetFlag(th) ==
    /\ ipc[th] = "flag"
    /\ _initialized' = TRUE
    /\ Goto(th, "idle", ikind[th], "returned")
    /\ UNCHANGED <<disk, model, assets, frame, tframe, loads, pad, clean, api>>

\* initialize() and the guarded call, from any thread at any time
NextC ==
    \E th \in Threads :
        \/ CallInitialize(th)
        \/ CallLazy(th)
        \/ InitCheck(th)
        \/ InitFiles(th)
        \/ InitLoadModel(th)
        \/ InitLoadPickle(th)
        \/ InitSetFlag(th)

SpecC == InitT /\ [][NextC]_vars

(***************************************************************************)
(* ModelLoader._pad_sequences called on its own, on any list of at most    *)
(* two integer sequences.                                                  *)
(***************************************************************************)
PadSeqs == UNION {[1..k -> 0..MaxPadVal] : k \in 0..MaxSeqLen}

PadLists == {<<>>} \cup {<<s>> : s \in PadSeqs}
                  \cup {<<s, u>> : s \in PadSeqs, u \in PadSeqs}

PadInputs ==
    [sequences : PadLists, maxlen : -1..MaxPadLen, padding : {"post", "pre"}]

\* the utility reads neither the disk nor the engine: both are left as a
\* process without artifacts has them
InitP ==
    /\ disk = [model |-> Missing, pickle |-> Missing]
    /\ EngineInit
    /\ ThreadsInit
    /\ CleanIdle
    /\ ApiIdle
    /\ pad_in \in PadInputs
    /\ pad_out = NoRet

\* self._pad_sequences(sequences, maxlen, padding)
Pad ==
    /\ pad_out = NoRet
    /\ pad_in # Unset
    /\ pad_out' = _pad_sequences(pad_in.sequences, pad_in.maxlen, pad_in.padding)
    /\ UNCHANGED <<disk, engine, frame, tframe, loads, threads, pad_in, clean, api>>

NextP == Pad

SpecP == InitP /\ [][NextP]_vars

(***************************************************************************)
(* The two text cleaning functions called on their own, on any text over   *)
(* an upper-case letter, a digit, a space and a Khmer character.           *)
(***************************************************************************)
CleanAlphabet == {"A", "1", " ", "U1780"}

CleanInputs ==
    [text : UNION {[1..k -> CleanAlphabet] : k \in 0..MaxCleanLen},
     is_khmer : BOOLEAN]

InitN ==
    /\ disk = [model |-> Missing, pickle |-> Missing]
    /\ EngineInit
    /\ ThreadsInit
    /\ PadIdle
    /\ ApiIdle
    /\ clean_in \in CleanInputs
    /\ clean_out = NoRet

\* model_loader.clean_text(text, is_khmer) and
\* DataPreprocessor.clean_input(text, is_khmer)
Clean ==
    /\ clean_out = NoRet
    /\ clean_in # Unset
    /\ clean_out' = [clean_text |-> clean_text(clean_in.text, clean_in.is_khmer),
                     clean_input |-> clean_input(clean_in.text, clean_in.is_khmer)]
    /\ UNCHANGED <<disk, engine, frame, tframe, loads, threads, pad, clean_in, api>>

NextN == Clean

SpecN == InitN /\ [][NextN]_vars

(***************************************************************************)
(* The engine called with words over a letter of the source vocabulary, a  *)
(* letter outside it and a space, so that the word-level lookup fails.     *)
(***************************************************************************)
OovAlphabet == {"a", "k", " "}

OovInputs == UNION {[1..k -> OovAlphabet] : k \in 0..MaxOovLen}

NextW ==
    \/ \E w \in OovInputs : Predict(w)
    \/ Iterate
    \/ Finish
    \/ Return

SpecW == InitT /\ [][NextW]_vars

(***************************************************************************)
(* The request handlers of backend/api/v1/endpoints.py.  The database is   *)
(* the environment: an INSERT .. RETURNING gives a row, gives no row, or   *)
(* raises; check_connection gives True or False.                           *)
(***************************************************************************)
\* len(data.text) > 100
MaxTextChars == 100

\* rating: int = Field(..., ge=1, le=5) and if not 1 <= data.rating <= 5
MinRating == 1
MaxRating == 5

LongText == [i \in 1..(MaxTextChars + 1) |-> "A"]

ApiTexts == Inputs \cup {LongText}

Ratings == (MinRating - 1)..(MaxRating + 1)

\* str(uuid.uuid4())
PredictionIds == {"p1", "p2"}

DbResults == {"row", "none", "raise"}

\* ValidateText with a seeded fault: the test is "if not data.text", without the strip
ValidateTextNoStrip(txt) ==
    IF txt = <<>>
    THEN [status |-> 400, detail |-> "Input cannot be empty"]
    ELSE IF Len(txt) > MaxTextChars
    THEN [status |-> 400, detail |-> "Input too long. Max 100 characters."]
    ELSE NoRet

\* the two tests that open the translate handler: the HTTPException raised
\* or nothing
ValidateText(txt) ==
    IF txt = <<>> \/ strip(txt) = <<>>
    THEN [status |-> 400, detail |-> "Input cannot be empty"]
    ELSE IF Len(txt) > MaxTextChars
    THEN [status |-> 400, detail |-> "Input too long. Max 100 characters."]
    ELSE NoRet

\* save_prediction with a seeded fault: the except clause logs and raises again
save_predictionReraise(id, db) ==
    IF db = "raise"
    THEN [raised |-> TRUE, ret |-> id, saved |-> FALSE]
    ELSE [raised |-> FALSE, ret |-> id, saved |-> db = "row"]

\* TranslationService.save_prediction
save_prediction(id, db) ==
    IF db = "raise"
    THEN [raised |-> FALSE, ret |-> id, saved |-> FALSE]
    ELSE IF db = "row"
    THEN [raised |-> FALSE, ret |-> id, saved |-> TRUE]
    ELSE [raised |-> FALSE, ret |-> id, saved |-> FALSE]

\* POST /translate, to the call of translate_text
ApiTranslate(txt) ==
    /\ apc = "idle"
    /\ tpc = "idle"
    /\ pc = "idle"
    /\ areq' = [endpoint |-> "translate", text |-> txt]
    /\ LET v == ValidateText(txt)
       IN  IF v # NoRet
           THEN /\ apc' = "done"
                /\ aresp' = v
                /\ aeffects' = <<>>
                /\ UNCHANGED <<disk, engine, frame, tframe, loads, threads, pad,
                               clean>>
           ELSE /\ apc' = "translate"
                /\ aresp' = NoRet
                /\ aeffects' = <<"translate_text">>
                /\ TranslateCall(txt)

\* POST /translate, from the return of translate_text to the response
ApiTranslateRespond ==
    /\ apc = "translate"
    /\ tpc = "done"
    /\ \E id \in PredictionIds, db \in DbResults :
           LET sv == save_prediction(id, db)
           IN  /\ areq' = [endpoint |-> "translate", text |-> areq.text,
                           id |-> id, db |-> db]
               /\ IF sv.raised
                  THEN /\ aresp' = [status |-> 500, detail |-> "Translation failed"]
                       /\ aeffects' = aeffects \o <<"save_prediction", "log_error">>
                  ELSE /\ aresp' =
                              [status |-> 200,
                               body |-> [input_text |-> areq.text,
                                         translation |-> tret.translation,
                                         average_confidence |->
                                             tret.average_confidence,
                                         word_count |-> tret.word_count,
                                         prediction_id |-> sv.ret]]
                       /\ aeffects' =
                              aeffects \o <<"save_prediction", "log_prediction">>
    /\ apc' = "done"
    /\ tpc' = "idle"
    /\ text' = <<>>
    /\ words' = <<>>
    /\ results' = <<>>
    /\ total_confidence' = 0
    /\ tret' = NoRet
    /\ UNCHANGED <<disk, engine, frame, loads, threads, pad, clean>>

\* what the try block of submit_feedback does: it returns the response or
\* an exception leaves it
FeedbackTry(rating, db) ==
    IF ~(MinRating <= rating /\ rating <= MaxRating)
    THEN [raised |-> TRUE,
          exc |-> [status |-> 400, detail |-> "Rating must be between 1 and 5"],
          effects |-> <<>>]
    ELSE IF db = "raise"
    THEN [raised |-> TRUE, exc |-> [status |-> 0, detail |-> "database error"],
          effects |-> <<"insert_feedback">>]
    ELSE IF db = "row"
    THEN [raised |-> FALSE,
          resp |-> [status |-> 200,
                    body |-> [message |-> "Feedback submitted successfully"]],
          effects |-> <<"insert_feedback", "log_user_feedback">>]
    ELSE [raised |-> TRUE,
          exc |-> [status |-> 500, detail |-> "Failed to save feedback"],
          effects |-> <<"insert_feedback">>]

\* submit_feedback: the try block, and except Exception for everything
\* raised in it, the HTTPExceptions included
submit_feedback(rating, db) ==
    LET tr == FeedbackTry(rating, db)
    IN  IF tr.raised
        THEN [resp |-> [status |-> 500,
                        detail |-> "Failed to submit feedback: ",
                        cause |-> tr.exc],
              effects |-> tr.effects]
        ELSE [resp |-> tr.resp, effects |-> tr.effects]

\* POST /feedback: the validation of FeedbackRequest, then the handler
ApiFeedback(rating, db) ==
    /\ apc = "idle"
    /\ tpc = "idle"
    /\ pc = "idle"
    /\ apc' = "done"
    /\ areq' = [endpoint |-> "feedback", rating |-> rating, db |-> db]
    /\ IF rating < MinRating \/ rating > MaxRating
       THEN /\ aresp' = [status |-> 422, detail |-> "validation error"]
            /\ aeffects' = <<>>
       ELSE LET r == submit_feedback(rating, db)
            IN  /\ aresp' = r.resp
                /\ aeffects' = r.effects
    /\ UNCHANGED <<disk, engine, frame, tframe, loads, threads, pad, clean>>

\* HealthStatus with a seeded fault: anything short of both is unhealthy
HealthStatusStrict(model_loaded, database_connected) ==
    IF model_loaded /\ database_connected THEN "healthy" ELSE "unhealthy"

\* the status string of the health check
HealthStatus(model_loaded, database_connected) ==
    IF model_loaded /\ database_connected THEN "healthy"
    ELSE IF model_loaded \/ database_connected THEN "degraded"
    ELSE "unhealthy"

\* GET /health
ApiHealth(dbok) ==
    /\ apc = "idle"
    /\ tpc = "idle"
    /\ pc = "idle"
    /\ LET i == IF ~_initialized
                THEN initialize(_initialized, model, assets, disk)
                ELSE [raised |-> FALSE, _initialized |-> _initialized,
                      model |-> model, assets |-> assets, loaded |-> FALSE]
           model_loaded == ~i.raised
       IN  /\ i.loaded => loads < MaxLoads
           /\ _initialized' = i._initialized
           /\ model' = i.model
           /\ assets' = i.assets
           /\ loads' = Counted(loads, i)
           /\ aresp' = [status |-> 200,
                        body |-> [status |-> HealthStatus(model_loaded, dbok),
                                  model_loaded |-> model_loaded,
                                  database_connected |-> dbok]]
    /\ apc' = "done"
    /\ areq' = [endpoint |-> "health", was_initialized |-> _initialized,
                db |-> dbok]
    /\ aeffects' = <<>>
    /\ UNCHANGED <<disk, frame, tframe, threads, pad, clean>>

\* the client has the response
ApiDeliver ==
    /\ apc = "done"
    /\ apc' = "idle"
    /\ areq' = NoRet
    /\ aresp' = NoRet
    /\ aeffects' = <<>>
    /\ UNCHANGED <<disk, engine, frame, tframe, loads, threads, pad, clean>>

\* the service behind its HTTP interface
NextA ==
    \/ \E txt \in ApiTexts : ApiTranslate(txt)
    \/ TranslateWord
    \/ Iterate
    \/ Finish
    \/ WordDone
    \/ ApiTranslateRespond
    \/ \E rating \in Ratings, db \in DbResults : ApiFeedback(rating, db)
    \/ \E dbok \in BOOLEAN : ApiHealth(dbok)
    \/ ApiDeliver

SpecA == InitT /\ [][NextA]_vars

\* the engine called on its own
Next ==
    \/ Initialize
    \/ \E w \in Inputs : Predict(w)
    \/ Iterate
    \/ Finish
    \/ Return

Spec == Init /\ [][Next]_vars

\* the engine called by the translation service
NextT ==
    \/ Initialize
    \/ \E txt \in Texts : Translate(txt)
    \/ TranslateWord
    \/ Iterate
    \/ Finish
    \/ WordDone
    \/ TranslateReturn

SpecT == InitT /\ [][NextT]_vars

\* the decoding loop is sequential code: once started it runs to the return
SpecFair == InitT /\ [][Next]_vars /\ WF_vars(Iterate) /\ WF_vars(Finish)

(***************************************************************************)
(* Properties.                                                             *)
(***************************************************************************)
Chars == InputAlphabet \cup {"a", "k", "[", "]", "\t", "\n"}

IsPair(r) ==
    /\ DOMAIN r = {"translation", "confidence"}
    /\ r.translation \in Seq(Chars)
    /\ r.confidence \in Int

EchoOf(input) == [translation |-> <<"[">> \o input \o <<"]">>, confidence |-> 0]

LoadFails(dsk) ==
    dsk.model \in {Missing, Corrupt} \/ dsk.pickle \in {Missing, Corrupt}

\* the loaded target vocabulary has no start marker or no end marker
LacksControl ==
    /\ _initialized
    /\ \/ StartMarker \notin DOMAIN assets.khm_tokenizer.word_index
       \/ EndMarker \notin DOMAIN assets.khm_tokenizer.word_index

NormalizesToEmpty(input) == clean_text(input, FALSE) = <<>>

\* the call ran the loop and the lines after it, and has returned
Decoded == pc = "done" /\ caught = "none" /\ decoder_seq # <<>>

Blank(s) == \A i \in 1..Len(s) : s[i] \in {" ", "\t", "\n"}

\* C1 as stated: every call of predict_khmer_with_confidence, in every engine
\* state, returns a (string, float) pair and never raises.
C1_AlwaysReturns == pc = "done" => outcome = "returned" /\ IsPair(ret)

\* C1, amended: a call returns a (string, float) pair and does not raise
\* whenever the engine is initialized by the time it normalizes the input
\* (it was already, or the lazy initialize() succeeded), whatever the input
\* and whether the forward pass returns or raises; a call that finds the
\* engine uninitialized and whose load fails raises that load error.
C1_TotalOnceInitialized ==
    pc = "done" =>
        IF _initialized
        THEN outcome = "returned" /\ IsPair(ret)
        ELSE outcome = "raised" /\ LoadFails(disk)

C1_Witness ==
    /\ pc = "done"
    /\ caught = "forward"
    /\ outcome = "returned"
    /\ IsPair(ret)

\* C2: when the except clause of the call caught an exception of the encode
\* or decode phase, the call returns ('[' + the input as given + ']', 0.0).
C2_ExceptionGivesEcho ==
    pc = "done" /\ caught # "none" =>
        outcome = "returned" /\ ret = EchoOf(eng_input)

C2_Witness ==
    /\ pc = "done"
    /\ caught = "forward"
    /\ passes > 1
    /\ eng_input = <<"A">>
    /\ ret.translation = <<"[", "A", "]">>

\* C3 as stated: for every input word, a target vocabulary without the
\* start or the end marker gives ('[' + word + ']', 0.0) and no forward pass.
C3_EveryWordEchoed ==
    pc = "done" /\ LacksControl => ret = EchoOf(eng_input) /\ passes = 0

\* C3, amended: for every input word whose normalization is not empty, a
\* target vocabulary without the start or the end marker gives
\* ('[' + word + ']', 0.0) and no forward pass.
C3_NonEmptyWordEchoed ==
    pc = "done" /\ LacksControl /\ ~NormalizesToEmpty(eng_input) =>
        ret = EchoOf(eng_input) /\ passes = 0

C3_Witness ==
    /\ pc = "done"
    /\ LacksControl
    /\ StartMarker \in DOMAIN assets.khm_tokenizer.word_index
    /\ model.T > 0
    /\ caught = "none"
    /\ eng_input = <<"A">>
    /\ ret = EchoOf(<<"A">>)

\* C4 as stated: an input that normalizes to the empty string gives
\* ('', 0.0) and no forward pass, in every engine state.
C4_EmptyInEveryState ==
    pc = "done" /\ NormalizesToEmpty(eng_input) =>
        outcome = "returned" /\ ret = [translation |-> <<>>, confidence |-> 0]
        /\ passes = 0

\* C4, amended: an input that normalizes to the empty string gives ('', 0.0)
\* and no forward pass in every engine state in which the engine is
\* initialized by then (it was already, or the lazy initialize() succeeded).
C4_EmptyOnceInitialized ==
    pc = "done" /\ NormalizesToEmpty(eng_input) /\ _initialized =>
        outcome = "returned" /\ ret = [translation |-> <<>>, confidence |-> 0]
        /\ passes = 0

C4_Witness ==
    /\ pc = "done"
    /\ eng_input = <<"1">>
    /\ _initialized
    /\ ~LacksControl
    /\ model.T > 0
    /\ ret = [translation |-> <<>>, confidence |-> 0]

\* C5: a call never makes more than max_khm_len + 10 forward passes, and a
\* call that entered the decoding loop returns.
C5_BoundedAndTerminates ==
    /\ [](_initialized => passes <= assets.max_khm_len + 10)
    /\ (pc = "loop") ~> (pc = "done")

C5_Witness ==
    /\ pc = "done"
    /\ outcome = "returned"
    /\ passes = assets.max_khm_len + 10
    /\ \A i \in 1..Len(decoder_seq) : decoder_seq[i] # end_idx

\* C6: the decoded string is, character by character, the vocabulary
\* characters of the tokens after the start token and before the first end
\* token, a token without a vocabulary entry contributing nothing.
C6_DecodedIsConcatenation ==
    Decoded =>
        LET toks == Tail(decoder_seq)
            ends == {i \in 1..Len(toks) : toks[i] = end_idx}
            stop == IF ends = {} THEN Len(toks) + 1
                    ELSE CHOOSE i \in ends : \A j \in ends : i <= j
            index_word == assets.khm_tokenizer.index_word
            mapped == SelectSeq(SubSeq(toks, 1, stop - 1),
                                LAMBDA i : i \in DOMAIN index_word)
        IN  result = [j \in 1..Len(mapped) |-> index_word[mapped[j]][1]]

C6_Witness ==
    /\ Decoded
    /\ Len(decoder_seq) = 3
    /\ decoder_seq[2] \notin DOMAIN assets.khm_tokenizer.index_word
    /\ result = <<"k">>

\* C7: a decoded (non-fallback) string that is returned contains neither the
\* start marker nor the end marker.
C7_NoControlCharacters ==
    Decoded /\ ret.translation = result =>
        \A i \in 1..Len(result) : result[i] \notin {"\t", "\n"}

\* C8: a decoded string that is empty or all whitespace is replaced by
\* '[' + input + ']' and the confidence by 0.0, whatever was collected.
C8_BlankGivesEcho ==
    Decoded /\ (result = <<>> \/ Blank(result)) => ret = EchoOf(eng_input)

C8_Witness ==
    /\ Decoded
    /\ result = <<"\t">>
    /\ SumSeq(confidences) > 0
    /\ ret = EchoOf(eng_input)

\* C9: with per-step probabilities in [0, 1], the per-word confidence and the
\* average_confidence of translate_text lie in [0.0, 100.0].
C9_ConfidenceInRange ==
    /\ pc = "done" /\ outcome = "returned" =>
           0 <= ret.confidence /\ ret.confidence <= 10000
    /\ tpc = "done" =>
           0 <= tret.average_confidence /\ tret.average_confidence <= 10000

C9_Witness ==
    /\ tpc = "done"
    /\ tret.word_count = 2
    /\ \A i \in 1..2 : tret.word_translations[i].confidence = 10000
    /\ tret.average_confidence = 10000

\* c hundredths is 100 times the mean of confs, rounded to two decimals
IsRoundedMean(c, confs) ==
    LET n == Len(confs)
        d == c * n * ProbDen - SumSeq(confs) * 10000
    IN  2 * d <= n * ProbDen /\ -2 * d <= n * ProbDen

\* C10 as stated: when the decoded string is non-empty the confidence is the
\* mean of the probabilities of all steps (one per generated token), times
\* 100, rounded to 2 decimals; with zero steps it is 0.0.
C10_MeanWhenNonEmpty ==
    /\ Decoded /\ result # <<>> =>
           /\ Len(confidences) = Len(decoder_seq) - 1
           /\ IsRoundedMean(ret.confidence, confidences)
    /\ Decoded /\ confidences = <<>> => ret.confidence = 0

\* C10, amended: when the decoded string is non-empty and not all
\* whitespace the confidence is the mean of the probabilities of all steps
\* (one per generated token, the step that emitted the end token included),
\* times 100, rounded to 2 decimals; with zero steps it is 0.0.
C10_MeanWhenVisible ==
    /\ Decoded /\ result # <<>> /\ ~Blank(result) =>
           /\ Len(confidences) = Len(decoder_seq) - 1
           /\ IsRoundedMean(ret.confidence, confidences)
    /\ Decoded /\ confidences = <<>> => ret.confidence = 0

C10_Witness ==
    /\ Decoded
    /\ Len(decoder_seq) = 3
    /\ decoder_seq[3] = end_idx
    /\ confidences = <<1, ProbDen>>
    /\ ret.translation = result
    /\ ret.confidence = 6667

\* the pair translate_single_word hands back for the word being translated
WordPair ==
    IF outcome = "raised"
    THEN [translation |-> <<"[">> \o eng_input \o <<"]">>, confidence |-> 0]
    ELSE ret

\* a step of the loop over the words that appends the result of one word
WordStep == tpc = "words" /\ pc = "done" /\ Len(results') = Len(results) + 1

\* C11: the translation returned by translate_text is the concatenation, in
\* input order and with nothing in between, of what the single-word decode
\* gave for each whitespace-separated word of the text.
C11_TranslationIsConcatenation ==
    /\ [](tpc = "done" =>
            /\ Len(tret.word_translations) = Len(split(text))
            /\ \A i \in 1..Len(split(text)) :
                   tret.word_translations[i].input = split(text)[i]
            /\ tret.translation =
                   join([i \in 1..Len(tret.word_translations) |->
                            tret.word_translations[i].translation]))
    /\ [][WordStep =>
            /\ eng_input = words[Len(results) + 1]
            /\ results'[Len(results')].translation = WordPair.translation
            /\ SubSeq(results', 1, Len(results)) = results]_vars

C11_Witness ==
    /\ tpc = "done"
    /\ text = <<"A", " ", "A">>
    /\ tret.word_translations[1].translation = <<"k">>
    /\ tret.word_translations[2].translation = <<"[", "A", "]">>
    /\ tret.translation = <<"k", "[", "A", "]">>

\* the entry of word_translations for a word whose decode raised
EchoEntry(word) ==
    [input |-> word, translation |-> <<"[">> \o word \o <<"]">>, confidence |-> 0]

\* C12: translate_text returns a dict and does not raise; when the engine
\* raises for a word (a failed load on first use included) the entry of that
\* word is ('[' + word + ']', 0.0), and the entries of the words before it
\* are kept as they were.
C12_WordFailureContained ==
    /\ [](tpc = "done" =>
            /\ tret # NoRet
            /\ LoadFails(disk) =>
                   \A i \in 1..Len(split(text)) :
                       tret.word_translations[i] = EchoEntry(split(text)[i]))
    /\ [][WordStep /\ outcome = "raised" =>
            /\ results' = Append(results, EchoEntry(words[Len(results) + 1]))
            /\ tpc' = "done" => tret'.word_translations = results']_vars

C12_Witness ==
    /\ tpc = "done"
    /\ disk.pickle = Corrupt
    /\ model # Unset
    /\ text = <<"A", " ", "1">>
    /\ tret.translation = <<"[", "A", "]", "[", "1", "]">>
    /\ tret.word_count = 2

\* the text has no character that is not whitespace
AllBlank(txt) == \A i \in 1..Len(txt) : txt[i] \in {" ", "\t", "\n"}

\* C13: for a text without a non-whitespace character translate_text
\* returns translation '', no per-word entries, average_confidence 0.0 and
\* word_count 0, and the call neither initializes the engine nor starts a
\* decode.
C13_BlankTextGivesEmpty ==
    /\ [](tpc = "done" /\ AllBlank(text) =>
            /\ tret.translation = <<>>
            /\ tret.word_translations = <<>>
            /\ tret.average_confidence = 0
            /\ tret.word_count = 0
            /\ tret.input_text = text
            /\ pc = "idle"
            /\ passes = 0)
    /\ [][tpc = "idle" /\ tpc' # "idle" /\ AllBlank(text') =>
            /\ tpc' = "done"
            /\ UNCHANGED <<engine, frame, loads>>]_vars

C13_Witness ==
    /\ tpc = "done"
    /\ text = <<" ", " ">>
    /\ ~_initialized
    /\ model = Unset
    /\ disk.model # Missing /\ disk.model # Corrupt
    /\ disk.pickle # Missing /\ disk.pickle # Corrupt
    /\ tret.word_count = 0

\* c hundredths is sum / n rounded to two decimals
IsRoundedQuotient(c, sum, n) ==
    LET d == c * n - sum
    IN  2 * d <= n /\ -2 * d <= n

\* C14: for a text with n >= 1 words translate_text returns word_count = n
\* and n per-word entries, and average_confidence is the sum of the n
\* per-word confidences divided by n, rounded to 2 decimals; every entry
\* holds the confidence the single-word decode gave, which is 0.0 for a word
\* that normalizes to empty and for a word that took the bracket fallback.
C14_CountAndMean ==
    /\ [](tpc = "done" /\ split(text) # <<>> =>
            LET n == Len(split(text))
                rs == tret.word_translations
            IN  /\ n >= 1
                /\ tret.word_count = n
                /\ Len(rs) = n
                /\ IsRoundedQuotient(tret.average_confidence,
                                     SumSeq([i \in 1..n |-> rs[i].confidence]), n)
                /\ \A i \in 1..n :
                       \/ NormalizesToEmpty(rs[i].input)
                       \/ rs[i].translation = <<"[">> \o rs[i].input \o <<"]">>
                       => rs[i].confidence = 0)
    /\ [][WordStep =>
            results'[Len(results')].confidence = WordPair.confidence]_vars

C14_Witness ==
    /\ tpc = "done"
    /\ text = <<"A", " ", "1">>
    /\ tret.word_count = 2
    /\ tret.word_translations[1].confidence = 6667
    /\ tret.word_translations[2] = [input |-> <<"1">>, translation |-> <<>>,
                                    confidence |-> 0]
    /\ tret.average_confidence = 3334

\* C15: over every interleaving of initialize() and guarded calls the model
\* artifact is loaded at most once in the life of the process.
C15_LoadedOnce == loads <= 1

\* thread th leaves the test of _initialized, the engine being initialized
ReinitializeStep(th) == ipc[th] = "check" /\ _initialized /\ ipc'[th] # "check"

\* C16: initialize() on an initialized engine returns at once without
\* error, tests no file and loads nothing, and leaves the model, the
\* vocabularies, the max lengths and _initialized as they were, whatever
\* is on the disk by then.
C16_ReinitializeIsNoOp ==
    /\ [][\A th \in Threads : ReinitializeStep(th) =>
            /\ ipc'[th] = "idle"
            /\ iout'[th] = "returned"
            /\ UNCHANGED <<_initialized, model, assets, loads, disk>>]_vars
    /\ [](_initialized =>
            \A d \in Disks(MaxTT) :
                LET i == initialize(_initialized, model, assets, d)
                IN  /\ ~i.raised /\ ~i.loaded
                    /\ i._initialized = _initialized
                    /\ i.model = model
                    /\ i.assets = assets)

C16_Witness ==
    /\ _initialized
    /\ loads = 1
    /\ \A th \in Threads :
           ipc[th] = "idle" /\ ikind[th] = "initialize" /\ iout[th] = "returned"

\* C17: when the model file or the pickle is missing or its load raises,
\* every initialize() call that has ended ended by raising, no call gets to
\* the assignment of _initialized, and _initialized is False, also after
\* the model was loaded and the pickle load failed.
C17_LoadErrorPropagates ==
    LoadFails(disk) =>
        /\ ~_initialized
        /\ \A th \in Threads :
               /\ ipc[th] # "flag"
               /\ ipc[th] = "idle" /\ ikind[th] # "none" => iout[th] = "raised"
        /\ LET i == initialize(_initialized, model, assets, disk)
           IN  i.raised /\ ~i._initialized

C17_Witness ==
    /\ disk.pickle = Corrupt
    /\ model = disk.model
    /\ model.T > 0
    /\ ~_initialized
    /\ assets = Unset
    /\ ipc["t1"] = "idle"
    /\ ikind["t1"] = "initialize"
    /\ iout["t1"] = "raised"

\* C18: a target vocabulary without the start or the end marker is found at
\* initialization: initialize() never leaves the engine initialized with
\* such a vocabulary.
C18_MissingControlNotReady ==
    _initialized =>
        /\ StartMarker \in DOMAIN assets.khm_tokenizer.word_index
        /\ EndMarker \in DOMAIN assets.khm_tokenizer.word_index

\* the call of _pad_sequences on its own has returned or raised
Padded == pad_in # Unset /\ pad_out # NoRet

Min(a, b) == IF a < b THEN a ELSE b

\* every sequence handed to the call has at least one element
AllNonEmpty(sequences) == \A i \in 1..Len(sequences) : sequences[i] # <<>>

\* C19: for non-empty sequences and maxlen m >= 1 the row of a sequence s
\* has exactly m entries: with 'post' the first min(len(s), m) elements of
\* s, then zeros; with 'pre' zeros, then the last min(len(s), m) elements
\* of s.
C19_RowIsAlignedContent ==
    Padded /\ pad_in.maxlen >= 1 /\ AllNonEmpty(pad_in.sequences) =>
        /\ ~pad_out.err
        /\ Len(pad_out.rows) = Len(pad_in.sequences)
        /\ \A i \in 1..Len(pad_in.sequences) :
            LET s == pad_in.sequences[i]
                m == pad_in.maxlen
                k == Min(Len(s), m)
                row == pad_out.rows[i]
            IN      /\ Len(row) = m
                    /\ IF pad_in.padding = "post"
                       THEN \A j \in 1..m :
                                row[j] = IF j <= k THEN s[j] ELSE 0
                       ELSE \A j \in 1..m :
                                row[j] = IF j <= m - k THEN 0
                                         ELSE s[Len(s) - m + j]

C19_Witness ==
    /\ Padded
    /\ pad_in = [sequences |-> <<<<1, 0, 1>>, <<1>>>>, maxlen |-> 2,
                 padding |-> "pre"]
    /\ pad_out.rows = <<<<0, 1>>, <<0, 1>>>>

\* C20: for every list of sequences, sequences of length 0 included, every
\* maxlen >= 1 and both paddings, _pad_sequences returns without error one
\* row of maxlen entries per sequence, each entry a copied element or 0.
C20_AlwaysReturnsShape ==
    Padded /\ pad_in.maxlen >= 1 =>
        /\ ~pad_out.err
        /\ Len(pad_out.rows) = Len(pad_in.sequences)
        /\ \A i \in 1..Len(pad_out.rows) :
               /\ Len(pad_out.rows[i]) = pad_in.maxlen
               /\ Len(pad_in.sequences[i]) = 0 =>
                      \A j \in 1..pad_in.maxlen : pad_out.rows[i][j] = 0

\* the cleaning call made on its own has returned
Cleaned == clean_in # Unset /\ clean_out # NoRet

\* the j-th smallest element of a set of integers
Nth(S, j) == CHOOSE i \in S : Cardinality({k \in S : k <= i}) = j

\* the characters of text, lower-cased, between its first and its last
\* non-blank character, that satisfy Keep, in their order
KeptAfterStrip(txt, Keep(_)) ==
    LET low == [i \in 1..Len(txt) |-> IF txt[i] = "A" THEN "a" ELSE txt[i]]
        solid == {i \in 1..Len(txt) : low[i] \notin {" ", "\t", "\n"}}
        inner == {i \in 1..Len(txt) :
                     /\ \E a \in solid : a <= i
                     /\ \E b \in solid : i <= b
                     /\ Keep(low[i])}
    IN  [j \in 1..Cardinality(inner) |-> low[Nth(inner, j)]]

LetterOrBlank(c) == c \in {"a", "k", " ", "\t", "\n"}

KhmerOrBlank(c) == c \in {"U1780", " ", "\t", "\n"}

\* C21: clean_text(text, is_khmer=False) is the text lower-cased, then
\* stripped of leading and trailing whitespace, then freed of every
\* character outside a-z and whitespace, in that order: whitespace that
\* ends up last because the characters after it were deleted stays.
\* DataPreprocessor.clean_input gives the same.
C21_LowerStripFilter ==
    Cleaned /\ ~clean_in.is_khmer =>
        /\ clean_out.clean_text = KeptAfterStrip(clean_in.text, LetterOrBlank)
        /\ clean_out.clean_input = clean_out.clean_text

C21_Witness ==
    /\ Cleaned
    /\ clean_in = [text |-> <<" ", "A", " ", "1">>, is_khmer |-> FALSE]
    /\ clean_out.clean_text = <<"a", " ">>

\* C22: clean_text(text, is_khmer=True) is the text lower-cased, stripped,
\* and freed of every character outside the Khmer block and whitespace.
C22_KhmerOnly ==
    Cleaned /\ clean_in.is_khmer =>
        clean_out.clean_text = KeptAfterStrip(clean_in.text, KhmerOrBlank)

\* no whitespace-separated word of the cleaned input is in the source
\* vocabulary: the word-level lookup gives an empty sequence
WordLevelEmpty(cleaned) ==
    \A i \in 1..Len(split(cleaned)) :
        split(cleaned)[i] \notin DOMAIN assets.eng_tokenizer.word_index

\* index of the character if it has one, 1 for a space, 0 otherwise
ExpectedCodes(cleaned) ==
    LET wi == assets.eng_tokenizer.word_index
    IN  [i \in 1..Len(cleaned) |->
            IF \E w \in DOMAIN wi : w = <<cleaned[i]>>
            THEN wi[<<cleaned[i]>>]
            ELSE IF cleaned[i] = " " THEN 1 ELSE 0]

\* C23: when the word-level lookup of the cleaned word gives nothing, the
\* character fallback gives one code per character of the cleaned word
\* (its vocabulary index, else 1 for a space, else 0), the encoder input is
\* that sequence cut or zero-padded to max_eng_len, and the call returns a
\* pair: a decoded string or the bracket fallback.
C23_CharFallbackEncodes ==
    LET cleaned == clean_text(eng_input, FALSE)
        codes == ExpectedCodes(cleaned)
        m == assets.max_eng_len
    IN  pc # "idle" /\ _initialized /\ cleaned # <<>> /\ WordLevelEmpty(cleaned) =>
            /\ CharEncode(assets.eng_tokenizer, cleaned) = codes
            /\ Len(codes) = Len(cleaned)
            /\ IF m >= 0
               THEN enc_padded =
                        <<[j \in 1..m |-> IF j <= Len(codes) THEN codes[j] ELSE 0]>>
               ELSE caught = "encode"
            /\ pc = "done" =>
                   /\ outcome = "returned"
                   /\ IsPair(ret)
                   /\ \/ ret = EchoOf(eng_input)
                      \/ ret.translation = result /\ caught = "none"

C23_Witness ==
    /\ pc = "done"
    /\ eng_input = <<"k", "a">>
    /\ enc_padded = <<<<0>>>>
    /\ caught = "none"
    /\ passes > 0
    /\ ret.translation = <<"k">>


\* a text the translate handler must refuse
Refused(txt) == AllBlank(txt) \/ Len(txt) > MaxTextChars

\* the step that answers a translate request without calling translate_text
RefusedStep ==
    /\ apc = "idle"
    /\ apc' = "done"
    /\ areq'.endpoint = "translate"

\* C24: POST /translate answers 400 to a text that is empty, whitespace-only
\* or longer than 100 characters, and it does so before translate_text is
\* called: the orchestrator and the engine are untouched, no prediction is
\* saved and none is logged.
C24_RejectedBeforeCore ==
    /\ [](areq # NoRet /\ areq.endpoint = "translate" /\ Refused(areq.text) =>
              /\ apc = "done"
              /\ aresp.status = 400
              /\ aeffects = <<>>
              /\ tpc = "idle"
              /\ pc = "idle")
    /\ [][RefusedStep => UNCHANGED <<engine, frame, tframe, loads>>]_vars

C24_Witness ==
    /\ apc = "done"
    /\ areq.endpoint = "translate"
    /\ areq.text = LongText
    /\ aresp = [status |-> 400, detail |-> "Input too long. Max 100 characters."]
    /\ aeffects = <<>>

\* a translate request that passed the validation and has its response
Answered ==
    /\ apc = "done"
    /\ areq.endpoint = "translate"
    /\ ~Refused(areq.text)

\* C25: save_prediction never raises and returns prediction.id for each of
\* the three outcomes of the insert (a row, no row, an exception), so every
\* translate request that reached translate_text is answered 200 with that
\* id and the result of the translation, whatever the database did.
C25_PersistenceNeverFails ==
    /\ \A id \in PredictionIds, db \in DbResults :
           /\ ~save_prediction(id, db).raised
           /\ save_prediction(id, db).ret = id
           /\ save_prediction(id, db).saved = (db = "row")
    /\ Answered =>
           /\ aresp.status = 200
           /\ aresp.body.prediction_id = areq.id
           /\ aresp.body.input_text = areq.text
           /\ aeffects = <<"translate_text", "save_prediction", "log_prediction">>

C25_Witness ==
    /\ Answered
    /\ areq.db = "raise"
    /\ aresp.status = 200
    /\ aresp.body.prediction_id = areq.id
    /\ aresp.body.word_count = 1

\* the number of the two health flags that are true
FlagsUp(body) ==
    (IF body.model_loaded THEN 1 ELSE 0) + (IF body.database_connected THEN 1 ELSE 0)

\* C26: GET /health always answers 200 with status, model_loaded and
\* database_connected; model_loaded is true iff the engine was initialized
\* before the check or initialize() succeeded during it (a load failure is
\* reported as model_loaded = false); status is 'healthy' iff both flags
\* are true, 'degraded' iff exactly one is, 'unhealthy' iff neither is.
C26_HealthNeverFails ==
    apc = "done" /\ areq.endpoint = "health" =>
        /\ aresp.status = 200
        /\ DOMAIN aresp.body = {"status", "model_loaded", "database_connected"}
        /\ aresp.body.model_loaded = _initialized
        /\ areq.was_initialized => aresp.body.model_loaded
        /\ aresp.body.model_loaded /\ ~areq.was_initialized =>
               ~initialize(FALSE, model, assets, disk).raised
        /\ ~aresp.body.model_loaded =>
               initialize(FALSE, model, assets, disk).raised
        /\ aresp.body.database_connected = areq.db
        /\ (aresp.body.status = "healthy") = (FlagsUp(aresp.body) = 2)
        /\ (aresp.body.status = "degraded") = (FlagsUp(aresp.body) = 1)
        /\ (aresp.body.status = "unhealthy") = (FlagsUp(aresp.body) = 0)

C26_Witness ==
    /\ apc = "done"
    /\ areq.endpoint = "health"
    /\ ~areq.was_initialized
    /\ ~aresp.body.model_loaded
    /\ aresp.body.database_connected
    /\ aresp = [status |-> 200,
                body |-> [status |-> "degraded", model_loaded |-> FALSE,
                          database_connected |-> TRUE]]

\* C27: POST /feedback answers 400 with detail 'Rating must be between 1
\* and 5' whenever the handler sees a rating outside 1..5, and 500 with
\* detail 'Failed to save feedback' when the insert returns no row.
C27_DocumentedErrors ==
    apc = "done" /\ areq.endpoint = "feedback" =>
        /\ \A rating \in Ratings \ (MinRating..MaxRating) :
               LET r == submit_feedback(rating, areq.db).resp
               IN  /\ r.status = 400
                   /\ r.detail = "Rating must be between 1 and 5"
        /\ areq.rating \in MinRating..MaxRating /\ areq.db = "none" =>
               /\ aresp.status = 500
               /\ aresp.detail = "Failed to save feedback"

\* the largest probability of a distribution
MaxProb(dist) ==
    CHOOSE p \in {dist[i] : i \in DOMAIN dist} : \A i \in DOMAIN dist : dist[i] <= p

\* the lowest index that carries probability p
FirstAt(dist, p) ==
    CHOOSE i \in DOMAIN dist :
        dist[i] = p /\ \A j \in DOMAIN dist : dist[j] = p => i <= j

\* a decode step that appended the greedy choice of some output distribution
GreedyAppend ==
    \E dist \in model.dists :
        LET k == FirstAt(dist, MaxProb(dist))
        IN  /\ decoder_seq' = Append(decoder_seq, k)
            /\ confidences' = Append(confidences, dist[k])

\* C28: every decode step takes the index of maximum probability (the
\* lowest one on ties), appends it to decoder_seq and its probability to
\* confidences, or appends nothing; at every point of the loop
\* decoder_seq[0] is the start token and len(confidences) is
\* len(decoder_seq) - 1.
C28_GreedyStep ==
    /\ [](\A dist \in AllDists : ArgMax(dist) = FirstAt(dist, MaxProb(dist)))
    /\ [](pc \in {"loop", "post"} =>
              /\ decoder_seq # <<>>
              /\ decoder_seq[1] = start_idx
              /\ start_idx = assets.khm_tokenizer.word_index[StartMarker]
              /\ Len(confidences) = Len(decoder_seq) - 1)
    /\ [][pc = "loop" =>
              \/ GreedyAppend
              \/ UNCHANGED <<decoder_seq, confidences>>]_vars

C28_Witness ==
    /\ pc = "loop"
    /\ decoder_seq = <<1, 0, 3>>
    /\ confidences = <<0, ProbDen>>
    /\ t = 2

\* the positions of decoder_seq that hold an end token emitted by the model
EndPositions == {i \in 2..Len(decoder_seq) : decoder_seq[i] = end_idx}

\* C29: once the model has emitted the end token the call makes no further
\* forward pass, so an emitted end token is the last element of
\* decoder_seq and the loop is over; without an end token the loop stops
\* after the iteration with index max_khm_len + 9.
C29_EndTokenStops ==
    /\ [](pc \in {"loop", "post", "done"} /\ decoder_seq # <<>> =>
              /\ \A i \in EndPositions : i = Len(decoder_seq)
              /\ EndPositions # {} => pc # "loop")
    /\ [](pc = "loop" =>
              /\ t <= assets.max_khm_len + LastOffset
              /\ passes = t
              /\ Len(decoder_seq) = t + 1)
    /\ [](pc \in {"post", "done"} /\ decoder_seq # <<>> =>
              Len(decoder_seq) <= assets.max_khm_len + LastOffset + 2)
    /\ [][pc # "idle" /\ decoder_seq # <<>> /\ EndPositions # {} /\ pc' # "idle" =>
              passes' = passes /\ decoder_seq' = decoder_seq]_vars

C29_Witness ==
    /\ pc = "post"
    /\ decoder_seq = <<1, 3, 2>>
    /\ end_idx = 2
    /\ passes = 2
    /\ confidences = <<ProbDen, ProbDen>>

\* the position the next decode step reads from the model output
TimeIndex == Len(decoder_seq) - 1

\* the loop was left at the test of time_index: one forward pass more than
\* tokens generated, and nothing caught
PositionStop ==
    /\ decoder_seq # <<>>
    /\ caught = "none"
    /\ passes = Len(decoder_seq)

\* C30: a decode step reads the model output only at a position below T;
\* when len(decoder_seq) - 1 has reached T the loop ends without an
\* exception and without a fallback of its own, so the call generates at
\* most min(T, max_khm_len + 10) tokens and returns what the tokens
\* generated so far decode to.
C30_PositionInBounds ==
    /\ [](pc \in {"loop", "post", "done"} /\ decoder_seq # <<>> =>
              TimeIndex <= Min(model.T, assets.max_khm_len + LoopSlack))
    /\ [][pc = "loop" /\ decoder_seq' # decoder_seq => TimeIndex < model.T]_vars
    /\ [][pc = "loop" /\ TimeIndex >= model.T =>
              \/ /\ pc' = "post"
                 /\ caught' = "none"
                 /\ passes' = passes + 1
                 /\ UNCHANGED <<decoder_seq, confidences>>
              \/ caught' \in {"forward", "shape"}]_vars
    /\ [](pc = "done" /\ PositionStop =>
              /\ TimeIndex = model.T
              /\ outcome = "returned"
              /\ result = join(DecodedChars(Tail(decoder_seq), end_idx,
                                            assets.khm_tokenizer.index_word))
              /\ \/ ret.translation = result
                 \/ Blank(result) /\ ret = EchoOf(eng_input))

C30_Witness ==
    /\ pc = "done"
    /\ PositionStop
    /\ model.T = 2
    /\ decoder_seq = <<1, 3, 3>>
    /\ passes = 3
    /\ ret.translation = <<"k", "k">>
    /\ ret.confidence > 0

=============================================================================
